---- MODULE Spec2Model ----
(***************************************************************************)
(* Model of the markdown editor of the dashboard (MarkdownEditor and its   *)
(* renderer, src/unnamed/part_000).                                        *)
(*                                                                         *)
(* A text is a sequence of one-character strings.  Offsets are zero-based  *)
(* as in the source; Slice follows String.prototype.slice.                 *)
(*                                                                         *)
(* One action is one event handler run to completion.  React batches the   *)
(* state updates a handler issues and re-renders after it returns, so all  *)
(* operations called by one handler read the same localValue and the same  *)
(* widget selection, and the last updateValue of the handler decides the   *)
(* next localValue.  Callbacks passed to requestAnimationFrame are queued  *)
(* in rafQueue and run, in order, by the action Frame.                     *)
(***************************************************************************)
EXTENDS Integers, Sequences, FiniteSets, TLC

(***************************************************************************)
(* Bounds of the exploration.                                              *)
(***************************************************************************)
\* Growing operations and free selection are enabled on texts of at most
\* MaxLen characters.
MaxLen == 2
\* Number of raw-HTML elements of a token handed to the renderer.
MaxElems == 2
\* Longest text written inside a code span.
MaxEntityLen == 5

(***************************************************************************)
(* String literals of the source, as character sequences.  The backquote   *)
(* character is written "bq" and the superscript two "^2"; each stands for *)
(* one character.                                                          *)
(***************************************************************************)
BoldMark == <<"*", "*">>
ItalicMark == <<"*">>
TickMark == <<"bq">>
SupOpen == <<"<", "s", "u", "p", ">">>
SupClose == <<"<", "/", "s", "u", "p", ">">>
SpanOpenA == <<"<", "s", "p", "a", "n", " ", "s", "t", "y", "l", "e", "=", "\"", "c", "o", "l", "o", "r", ":">>
SpanOpenB == <<"\"", ">">>
SpanClose == <<"<", "/", "s", "p", "a", "n", ">">>
PhBold == <<"b", "o", "l", "d", " ", "t", "e", "x", "t">>
PhItalic == <<"i", "t", "a", "l", "i", "c", " ", "t", "e", "x", "t">>
PhCode == <<"c", "o", "d", "e">>
PhColored == <<"c", "o", "l", "o", "r", "e", "d", " ", "t", "e", "x", "t">>
\* "x" followed by the superscript-two character
PhSuper == <<"x", "^2">>
PhHeading == <<"H", "e", "a", "d", "i", "n", "g">>
PhQuote == <<"Q", "u", "o", "t", "e">>
PhLinkText == <<"l", "i", "n", "k", " ", "t", "e", "x", "t">>
ExampleUrl == <<"h", "t", "t", "p", "s", ":", "/", "/", "e", "x", "a", "m", "p", "l", "e", ".", "c", "o", "m">>
UrlOpen == <<"(", "h", "t", "t", "p", "s">>
FenceOpen == <<"\n", "\n", "bq", "bq", "bq", "\n">>
FenceClose == <<"\n", "bq", "bq", "bq", "\n", "\n">>
CodeBlockNoWidget == <<"\n", "\n", "bq", "bq", "bq", "\n", "c", "o", "d", "e", "\n", "bq", "bq", "bq", "\n", "\n">>
QuoteOpen == <<"\n", ">", " ">>
QuoteNoWidget == <<"\n", ">", " ", "Q", "u", "o", "t", "e", "\n">>
ListOrderedNoWidget == <<"\n", "1", ".", " ", "I", "t", "e", "m", "\n">>
ListBulletNoWidget == <<"\n", "-", " ", "I", "t", "e", "m", "\n">>
OrderedPrefix == <<"1", ".", " ">>
BulletPrefix == <<"-", " ">>
BreakSnippet == <<"\n", "\n", "-", "-", "-", "\n", "\n">>
LinkNoWidget == <<"[", "l", "i", "n", "k", " ", "t", "e", "x", "t", "]", "(", "h", "t", "t", "p", "s", ":", "/", "/", "e", "x", "a", "m", "p", "l", "e", ".", "c", "o", "m", ")">>
ImgOpen == <<"\n", "<", "i", "m", "g", " ", "s", "r", "c", "=", "\"">>
AltOpen == <<"\"", " ", "a", "l", "t", "=", "\"">>
WidthOpen == <<" ", "w", "i", "d", "t", "h", "=", "\"">>
HeightOpen == <<" ", "h", "e", "i", "g", "h", "t", "=", "\"">>
ImgClose == <<" ", "/", ">", "\n">>
Black == <<"#", "0", "0", "0", "0", "0", "0">>

(***************************************************************************)
(* String primitives.                                                      *)
(***************************************************************************)
Min(a, b) == IF a < b THEN a ELSE b

Max(a, b) == IF a < b THEN b ELSE a

\* s.slice(a, b) for 0 <= a, 0 <= b
Slice(s, a, b) == SubSeq(s, Min(a, Len(s)) + 1, Min(b, Len(s)))

\* s.slice(a)
SliceFrom(s, a) == SubSeq(s, Min(a, Len(s)) + 1, Len(s))

\* s.startsWith(p)
StartsWith(s, p) == Len(s) >= Len(p) /\ SubSeq(s, 1, Len(p)) = p

\* s.includes(c) for a single character c
Includes(s, c) == \E i \in 1..Len(s) : s[i] = c

\* s.indexOf(p): first zero-based position of p in s, -1 when absent
IndexOf(s, p) ==
  LET hits == {i \in 0..(Len(s) - Len(p)) : SubSeq(s, i + 1, i + Len(p)) = p}
  IN IF hits = {} THEN -1 ELSE CHOOSE i \in hits : \A j \in hits : i <= j

\* s.lastIndexOf("\n"): last zero-based position of a line break, -1 when absent
LastIndexOfNL(s) ==
  LET hits == {i \in 0..(Len(s) - 1) : s[i + 1] = "\n"}
  IN IF hits = {} THEN -1 ELSE CHOOSE i \in hits : \A j \in hits : j <= i

\* textBeforeCursor.split("\n").pop() || "" : the text of the last line
LastLine(s) == SliceFrom(s, LastIndexOfNL(s) + 1)

\* "#".repeat(level) + " "
HeadingPrefix(level) == [i \in 1..level |-> "#"] \o <<" ">>

\* s.trim() is not the empty string
TrimNonEmpty(s) == \E i \in 1..Len(s) : s[i] \notin {" ", "\n"}

(***************************************************************************)
(* Text Mutation Engine.  Every operation is given the localValue T of the *)
(* render it was created in, whether textareaRef.current is set (ta) and   *)
(* the widget's selection (s, e).  It returns whether it called            *)
(* updateValue (upd), the text it passed (doc) and the selection ranges it *)
(* handed to requestAnimationFrame (raf).                                  *)
(***************************************************************************)
Res(doc, raf) == [upd |-> TRUE, doc |-> doc, raf |-> raf]

NoUpdate(T) == [upd |-> FALSE, doc |-> T, raf |-> <<>>]

Range(from, to) == <<[from |-> from, to |-> to]>>

\* selected text or the placeholder: localValue.slice(start, end) || placeholder
Selected(T, s, e, placeholder) ==
  IF Slice(T, s, e) = <<>> THEN placeholder ELSE Slice(T, s, e)

\* wrapSelection keeping the text from the selection start, not from its end
wrapSelection_KeepsSelection(T, ta, s, e, before, after, placeholder) ==
  IF ~ta
  THEN Res(T \o before \o placeholder \o after, <<>>)
  ELSE LET selected == Selected(T, s, e, placeholder)
           next == Slice(T, 0, s) \o before \o selected \o after \o SliceFrom(T, s)
           cursorPos == s + Len(before) + Len(selected) + Len(after)
       IN Res(next, Range(cursorPos, cursorPos))

wrapSelection(T, ta, s, e, before, after, placeholder) ==
  IF ~ta
  THEN Res(T \o before \o placeholder \o after, <<>>)
  ELSE LET selected == Selected(T, s, e, placeholder)
           next == Slice(T, 0, s) \o before \o selected \o after \o SliceFrom(T, e)
           cursorPos == s + Len(before) + Len(selected) + Len(after)
       IN Res(next, Range(cursorPos, cursorPos))

insertAtCursor(T, ta, s, e, snippet, selectAfter) ==
  IF ~ta
  THEN Res(T \o snippet, <<>>)
  ELSE LET next == Slice(T, 0, s) \o snippet \o SliceFrom(T, e)
       IN Res(next, IF selectAfter
                    THEN Range(s, s + Len(snippet))
                    ELSE Range(s + Len(snippet), s + Len(snippet)))

insertBold(T, ta, s, e) == wrapSelection(T, ta, s, e, BoldMark, BoldMark, PhBold)

insertItalic(T, ta, s, e) == wrapSelection(T, ta, s, e, ItalicMark, ItalicMark, PhItalic)

insertSuperscript(T, ta, s, e) == wrapSelection(T, ta, s, e, SupOpen, SupClose, PhSuper)

insertColor(T, ta, s, e, color) ==
  wrapSelection(T, ta, s, e, SpanOpenA \o color \o SpanOpenB, SpanClose, PhColored)

insertInlineCode(T, ta, s, e) == wrapSelection(T, ta, s, e, TickMark, TickMark, PhCode)

\* insertHeading counting the cursor from the line start without the text
\* that stands between the line start and the selection
insertHeading_CursorSkipsLineText(T, ta, s, e, level) ==
  IF ~ta
  THEN Res(HeadingPrefix(level) \o T, <<>>)
  ELSE LET beforeSelection == Slice(T, 0, s)
           afterSelection == SliceFrom(T, e)
           selectedText == Selected(T, s, e, PhHeading)
           lineStart == LastIndexOfNL(beforeSelection) + 1
           linePrefix == Slice(T, 0, lineStart)
           lineRemainderBefore == Slice(T, lineStart, s)
           headingPrefix == HeadingPrefix(level)
           next == linePrefix \o headingPrefix \o lineRemainderBefore
                     \o selectedText \o afterSelection
           newCursor == lineStart + Len(headingPrefix) + Len(selectedText)
       IN Res(next, Range(newCursor, newCursor))

insertHeading(T, ta, s, e, level) ==
  IF ~ta
  THEN Res(HeadingPrefix(level) \o T, <<>>)
  ELSE LET beforeSelection == Slice(T, 0, s)
           afterSelection == SliceFrom(T, e)
           selectedText == Selected(T, s, e, PhHeading)
           lineStart == LastIndexOfNL(beforeSelection) + 1
           linePrefix == Slice(T, 0, lineStart)
           lineRemainderBefore == Slice(T, lineStart, s)
           headingPrefix == HeadingPrefix(level)
           next == linePrefix \o headingPrefix \o lineRemainderBefore
                     \o selectedText \o afterSelection
           newCursor == lineStart + Len(headingPrefix) + Len(lineRemainderBefore)
                          + Len(selectedText)
       IN Res(next, Range(newCursor, newCursor))

insertCodeBlock(T, ta, s, e) ==
  IF ~ta
  THEN Res(CodeBlockNoWidget, <<>>)
  ELSE LET selected == Selected(T, s, e, PhCode)
           snippet == FenceOpen \o selected \o FenceClose
           next == Slice(T, 0, s) \o snippet \o SliceFrom(T, e)
       IN Res(next, Range(s + Len(snippet), s + Len(snippet)))

\* insertList placing the cursor from the selection start, as the other
\* operations do, instead of from the line start
insertList_CursorFromStart(T, ta, s, ordered) ==
  IF ~ta
  THEN Res(IF ordered THEN ListOrderedNoWidget ELSE ListBulletNoWidget, <<>>)
  ELSE LET beforeSelection == Slice(T, 0, s)
           lineStart == LastIndexOfNL(beforeSelection) + 1
           prefix == IF ordered THEN OrderedPrefix ELSE BulletPrefix
           snippet == <<"\n">> \o prefix \o SliceFrom(T, s)
           next == Slice(T, 0, lineStart) \o snippet
       IN Res(next, Range(s + Len(snippet), s + Len(snippet)))

insertList(T, ta, s, ordered) ==
  IF ~ta
  THEN Res(IF ordered THEN ListOrderedNoWidget ELSE ListBulletNoWidget, <<>>)
  ELSE LET beforeSelection == Slice(T, 0, s)
           lineStart == LastIndexOfNL(beforeSelection) + 1
           prefix == IF ordered THEN OrderedPrefix ELSE BulletPrefix
           snippet == <<"\n">> \o prefix \o SliceFrom(T, s)
           next == Slice(T, 0, lineStart) \o snippet
       IN Res(next, Range(lineStart + Len(snippet), lineStart + Len(snippet)))

insertQuote(T, ta, s, e) ==
  IF ~ta
  THEN Res(QuoteNoWidget, <<>>)
  ELSE LET selected == Selected(T, s, e, PhQuote)
           snippet == QuoteOpen \o selected \o <<"\n">>
           next == Slice(T, 0, s) \o snippet \o SliceFrom(T, e)
       IN Res(next, Range(s + Len(snippet), s + Len(snippet)))

insertLink(T, ta, s, e) ==
  IF ~ta
  THEN insertAtCursor(T, ta, s, e, LinkNoWidget, FALSE)
  ELSE LET selected == Selected(T, s, e, PhLinkText)
           snippet == <<"[">> \o selected \o <<"]", "(">> \o ExampleUrl \o <<")">>
           next == Slice(T, 0, s) \o snippet \o SliceFrom(T, e)
           cursorPos == s + IndexOf(snippet, UrlOpen) + 1
       IN Res(next, Range(cursorPos, cursorPos + Len(ExampleUrl)))

insertBreak(T, ta, s, e) == insertAtCursor(T, ta, s, e, BreakSnippet, FALSE)

\* ImageSnippet emitting the width attribute for an empty width too
ImageSnippet_AlwaysWidth(url, width, height, alt) ==
  LET widthAttr == WidthOpen \o width \o <<"\"">>
      heightAttr == IF height = <<>> THEN <<>> ELSE HeightOpen \o height \o <<"\"">>
  IN ImgOpen \o url \o AltOpen \o alt \o <<"\"">> \o widthAttr \o heightAttr \o ImgClose

\* the img tag built by insertImage: `width ? ... : ""` for width and height,
\* alt="${alt || ""}" for alt
ImageSnippet(url, width, height, alt) ==
  LET widthAttr == IF width = <<>> THEN <<>> ELSE WidthOpen \o width \o <<"\"">>
      heightAttr == IF height = <<>> THEN <<>> ELSE HeightOpen \o height \o <<"\"">>
  IN ImgOpen \o url \o AltOpen \o alt \o <<"\"">> \o widthAttr \o heightAttr \o ImgClose

insertImage(T, ta, s, e, url, width, height, alt) ==
  insertAtCursor(T, ta, s, e, ImageSnippet(url, width, height, alt), FALSE)

removeSlashCommand(T, ta, s) ==
  IF ~ta
  THEN NoUpdate(T)
  ELSE LET cursorPos == s
           textBeforeCursor == Slice(T, 0, cursorPos)
           lastLine == LastLine(textBeforeCursor)
       IN IF StartsWith(lastLine, <<"/">>)
          THEN LET lineStart == LastIndexOfNL(textBeforeCursor) + 1
                   textAfterCursor == SliceFrom(T, cursorPos)
                   newValue == Slice(T, 0, lineStart) \o textAfterCursor
               IN Res(newValue, Range(lineStart, lineStart))
          ELSE NoUpdate(T)

\* handleAutoClose: the closer of an opening character
pairs == [c \in {"bq", "*", "_", "["} |-> IF c = "[" THEN "]" ELSE c]

\* handleAutoClose without the test for a selection
handleAutoClose_IgnoresSelection(T, s, e, key) ==
  IF key \in DOMAIN pairs
  THEN Res(Slice(T, 0, s) \o <<key, pairs[key]>> \o SliceFrom(T, e),
           Range(s + 1, s + 1))
  ELSE NoUpdate(T)

handleAutoClose(T, s, e, key) ==
  IF s # e
  THEN NoUpdate(T)
  ELSE IF key \in DOMAIN pairs
       THEN Res(Slice(T, 0, s) \o <<key, pairs[key]>> \o SliceFrom(T, e),
                Range(s + 1, s + 1))
       ELSE NoUpdate(T)

(***************************************************************************)
(* State of a mounted editor.                                              *)
(***************************************************************************)
VARIABLES
  localValue,           \* useState localValue: the Document shown by the widget
  value,                \* the value prop held by the host (set by its onChange)
  selStart, selEnd,     \* textarea.selectionStart / selectionEnd
  activeView,           \* useState activeView: "edit", "split" or "preview"
  listenersAttached,    \* the keyup/mouseup/select listeners of the two
                        \* effects are attached to the mounted textarea
  showSlashMenu,        \* useState showSlashMenu
  slashQuery,           \* useState slashQuery
  showFloatingToolbar,  \* useState showFloatingToolbar
  rafQueue,             \* callbacks handed to requestAnimationFrame, not yet run
  pendingKey,           \* a key is down and awaits its keyup: "Escape", "key" or NoKey
  last,                 \* history: the last handler and what its operations did
  hasWindow,            \* renderer: typeof window !== "undefined"
  htmlToken,            \* renderer: the raw-HTML token being rendered
  rendered,             \* renderer: the elements emitted for a raw-HTML token
  emitted,              \* renderer: what the token's case returned
  markedBreaks,         \* preview: the breaks option of the marked module
  theme,                \* preview: the theme prop
  parsedTokens,         \* preview: useMemo parsedTokens
  renderedMarkdown,     \* preview: useMemo renderedMarkdown
  firstRender,          \* history: text, theme and output of the first render
  editorMounted,        \* listener: the editor component is mounted
  insertHandlers,       \* listener: the document's "markdown-editor-insert" listeners
  cleanupHandler,       \* listener: the handler the effect's cleanup will remove
  appUrlSet,            \* middleware: NEXT_PUBLIC_APP_URL is set
  request,              \* middleware: the request received last
  authAnswer,           \* middleware: what the auth service answered to its fetch
  response              \* middleware: what was returned for the request

editorVars == <<localValue, value, selStart, selEnd, activeView, listenersAttached,
                showSlashMenu, slashQuery, showFloatingToolbar,
                rafQueue, pendingKey, last>>

tokenVars == <<hasWindow, htmlToken, rendered, emitted>>

listenerVars == <<editorMounted, insertHandlers, cleanupHandler>>

middlewareVars == <<appUrlSet, request, authAnswer, response>>

renderVars == <<hasWindow, htmlToken, rendered, emitted,
                markedBreaks, theme, parsedTokens, renderedMarkdown, firstRender>>

vars == <<localValue, value, selStart, selEnd, activeView, listenersAttached,
          showSlashMenu, slashQuery, showFloatingToolbar,
          rafQueue, pendingKey, last, hasWindow, htmlToken, rendered, emitted,
          markedBreaks, theme, parsedTokens, renderedMarkdown, firstRender,
          editorMounted, insertHandlers, cleanupHandler,
          appUrlSet, request, authAnswer, response>>

NoKey == "none"

\* textareaRef.current is set: the textarea is rendered in the edit and split views
hasTextarea == activeView # "preview"

\* the text from the start of the current line to the cursor
LineSoFar == LastLine(Slice(localValue, 0, selStart))

\* the texts the user operates on: those of at most MaxLen characters, and
\* the text "(https", which insertLink searches for
Small(T) == Len(T) <= MaxLen \/ T = UrlOpen

\* The user's next input is explored once the key that is down has been
\* released and the pending animation frame has run; a keyup and a value
\* from the host may precede the frame.
Idle == pendingKey = NoKey /\ rafQueue = <<>>

(***************************************************************************)
(* Operations by name, as the toolbar buttons, the floating toolbar, the   *)
(* palette and the shortcuts invoke them.                                  *)
(***************************************************************************)
WrapNames == {"bold", "italic", "superscript", "color", "inlineCode"}

WrapBefore(name) ==
  CASE name = "bold" -> BoldMark
    [] name = "italic" -> ItalicMark
    [] name = "superscript" -> SupOpen
    [] name = "color" -> SpanOpenA \o Black \o SpanOpenB
    [] name = "inlineCode" -> TickMark

WrapAfter(name) ==
  CASE name = "bold" -> BoldMark
    [] name = "italic" -> ItalicMark
    [] name = "superscript" -> SupClose
    [] name = "color" -> SpanClose
    [] name = "inlineCode" -> TickMark

WrapPlaceholder(name) ==
  CASE name = "bold" -> PhBold
    [] name = "italic" -> PhItalic
    [] name = "superscript" -> PhSuper
    [] name = "color" -> PhColored
    [] name = "inlineCode" -> PhCode

Apply(name, T, ta, s, e) ==
  CASE name = "bold" -> insertBold(T, ta, s, e)
    [] name = "italic" -> insertItalic(T, ta, s, e)
    [] name = "superscript" -> insertSuperscript(T, ta, s, e)
    [] name = "color" -> insertColor(T, ta, s, e, Black)
    [] name = "inlineCode" -> insertInlineCode(T, ta, s, e)
    [] name = "heading1" -> insertHeading(T, ta, s, e, 1)
    [] name = "heading2" -> insertHeading(T, ta, s, e, 2)
    [] name = "heading3" -> insertHeading(T, ta, s, e, 3)
    [] name = "codeBlock" -> insertCodeBlock(T, ta, s, e)
    [] name = "bulletList" -> insertList(T, ta, s, FALSE)
    [] name = "numberedList" -> insertList(T, ta, s, TRUE)
    [] name = "quote" -> insertQuote(T, ta, s, e)
    [] name = "link" -> insertLink(T, ta, s, e)
    [] name = "break" -> insertBreak(T, ta, s, e)
    [] name = "removeSlash" -> removeSlashCommand(T, ta, s)

\* an operation's result tagged with the operation's name; args holds the
\* arguments the caller passed, for the operation that is given some
Tag(name, r) ==
  [name |-> name, upd |-> r.upd, doc |-> r.doc, raf |-> r.raf, args |-> <<>>]

Named(name, T, ta, s, e) == Tag(name, Apply(name, T, ta, s, e))

\* the text after a handler: the argument of its last updateValue
FinalDoc(T, ops) ==
  LET upds == {i \in 1..Len(ops) : ops[i].upd}
  IN IF upds = {} THEN T
     ELSE ops[CHOOSE i \in upds : \A j \in upds : j <= i].doc

RECURSIVE AllRaf_Reversed(_)
\* AllRaf with the callbacks of later operations ahead of the earlier ones
AllRaf_Reversed(ops) ==
  IF ops = <<>> THEN <<>> ELSE AllRaf_Reversed(Tail(ops)) \o Head(ops).raf

RECURSIVE AllRaf(_)
\* the requestAnimationFrame callbacks of a handler, in the order issued
AllRaf(ops) == IF ops = <<>> THEN <<>> ELSE Head(ops).raf \o AllRaf(Tail(ops))

\* history record of a handler: its kind and name, the operations it ran,
\* whether it called preventDefault, whether the palette was shown when it
\* started (active), and whether the animation frame after it has run (applied)
Handler(kind, name, ops, prevented) ==
  [kind |-> kind, name |-> name, ops |-> ops, prevented |-> prevented,
   active |-> showSlashMenu, applied |-> FALSE]

\* history record after a handler that runs no operation of the engine
NoHandler ==
  [kind |-> "idle", name |-> "", ops |-> <<>>, prevented |-> FALSE,
   active |-> FALSE, applied |-> FALSE]

\* Commit with an updateValue that sets localValue without calling onChange
Commit_WithoutOnChange(ops) ==
  LET next == FinalDoc(localValue, ops)
  IN /\ localValue' = next
     /\ value' = value
     /\ rafQueue' = rafQueue \o AllRaf(ops)
     /\ IF next # localValue
        THEN /\ selStart' = IF hasTextarea THEN Len(next) ELSE selStart
             /\ selEnd' = IF hasTextarea THEN Len(next) ELSE selEnd
             /\ listenersAttached' = hasTextarea
        ELSE UNCHANGED <<selStart, selEnd, listenersAttached>>

\* The commit after a handler that ran the operations ops: localValue and the
\* host's value take the last text passed to updateValue/onChange; React
\* writes a changed text into the widget, which moves the caret to the end of
\* the text; both effects with dependency [localValue] run again and attach
\* their listeners when textareaRef.current is set.
Commit(ops) ==
  LET next == FinalDoc(localValue, ops)
  IN /\ localValue' = next
     /\ value' = IF \E i \in 1..Len(ops) : ops[i].upd THEN next ELSE value
     /\ rafQueue' = rafQueue \o AllRaf(ops)
     /\ IF next # localValue
        THEN /\ selStart' = IF hasTextarea THEN Len(next) ELSE selStart
             /\ selEnd' = IF hasTextarea THEN Len(next) ELSE selEnd
             /\ listenersAttached' = hasTextarea
        ELSE UNCHANGED <<selStart, selEnd, listenersAttached>>

(***************************************************************************)
(* Palette matcher and selection toolbar: the listeners of the two effects.*)
(***************************************************************************)
\* slashActive requiring a query after the slash
slashActive_NeedsQuery(lastLine) ==
  /\ Len(lastLine) > 1
  /\ StartsWith(lastLine, <<"/">>)
  /\ ~Includes(lastLine, " ")

\* handleInput: the palette state decided from the text before the cursor
slashActive(lastLine) ==
  \/ lastLine = <<"/">>
  \/ /\ StartsWith(lastLine, <<"/">>)
     /\ ~Includes(lastLine, " ")
     /\ ~(lastLine # <<>> /\ lastLine[Len(lastLine)] = " ")

\* slashQuery is read by the palette only, and it is set anew whenever the
\* palette is shown: the query of a hidden palette is recorded as NoQuery
NoQuery == <<>>

handleInput(T, s) ==
  LET lastLine == LastLine(Slice(T, 0, s))
  IN IF slashActive(lastLine)
     THEN [show |-> TRUE, query |-> SliceFrom(lastLine, 1)]
     ELSE [show |-> FALSE, query |-> NoQuery]

\* handleSelection: winSel says whether window.getSelection() reports the
\* text selected inside the textarea (it does in some browsers only)
handleSelection(T, s, e, winSel) ==
  LET selectedText == IF winSel THEN Slice(T, s, e) ELSE <<>>
  IN TrimNonEmpty(selectedText) /\ s # e

\* filteredSlashCommands: the whole registry for an empty query; for a query
\* every command's title, description or search terms contain ("a") all of
\* them, and none for the other queries over the typed characters
slashCommands ==
  {"Heading 1", "Heading 2", "Heading 3", "Bold", "Italic", "Code Block",
   "Inline Code", "Bullet List", "Numbered List", "Quote", "Link", "Image",
   "Horizontal Rule"}

filteredSlashCommands(query) ==
  IF query = <<>> \/ query = <<"a">> THEN slashCommands ELSE {}

\* the operation a palette command runs after removeSlashCommand
CommandOp(c) ==
  CASE c = "Heading 1" -> "heading1"
    [] c = "Heading 2" -> "heading2"
    [] c = "Heading 3" -> "heading3"
    [] c = "Bold" -> "bold"
    [] c = "Italic" -> "italic"
    [] c = "Code Block" -> "codeBlock"
    [] c = "Inline Code" -> "inlineCode"
    [] c = "Bullet List" -> "bulletList"
    [] c = "Numbered List" -> "numberedList"
    [] c = "Quote" -> "quote"
    [] c = "Link" -> "link"
    [] c = "Horizontal Rule" -> "break"

(***************************************************************************)
(* Keys explored.                                                          *)
(***************************************************************************)
Key(k, mod, shift) == [key |-> k, mod |-> mod, shift |-> shift]

TypedChars == {"/", "a", " ", "*", "[", "_", "bq"}

\* the keys pressed in Spec
Keys ==
  {Key(c, FALSE, FALSE) : c \in {"/", "a", " "}}
  \cup {Key(k, FALSE, FALSE) : k \in {"Enter", "Escape", "Backspace", "ArrowUp",
                                     "ArrowDown", "ArrowLeft", "ArrowRight"}}
  \cup {Key(k, FALSE, TRUE) : k \in {"ArrowLeft", "ArrowRight"}}
  \cup {Key(k, TRUE, FALSE) : k \in {"b", "k"}}

\* the keys pressed in EngineSpec
EngineKeys ==
  {Key(c, FALSE, FALSE) : c \in TypedChars}
  \cup {Key(k, FALSE, FALSE) : k \in {"Enter", "Escape", "ArrowUp", "ArrowDown"}}
  \cup {Key(k, TRUE, FALSE) : k \in {"b", "B", "i", "I", "k", "K"}}

\* the character a key inserts by default, <<>> when it inserts none
Inserted(k) ==
  IF k.mod THEN <<>>
  ELSE IF k.key = "Enter" THEN <<"\n">>
  ELSE IF k.key \in TypedChars THEN <<k.key>>
  ELSE <<>>

\* the widget's own handling of a key whose default was not prevented: the
\* new text and selection
DefaultEdit(k, T, s, e) ==
  IF Inserted(k) # <<>>
  THEN [doc |-> Slice(T, 0, s) \o Inserted(k) \o SliceFrom(T, e), s |-> s + 1, e |-> s + 1]
  ELSE IF k.key = "Backspace"
  THEN IF s < e THEN [doc |-> Slice(T, 0, s) \o SliceFrom(T, e), s |-> s, e |-> s]
       ELSE [doc |-> Slice(T, 0, Max(s - 1, 0)) \o SliceFrom(T, s),
             s |-> Max(s - 1, 0), e |-> Max(s - 1, 0)]
  ELSE IF k.key = "ArrowLeft"
  THEN IF k.shift THEN [doc |-> T, s |-> Max(s - 1, 0), e |-> e]
       ELSE IF s < e THEN [doc |-> T, s |-> s, e |-> s]
       ELSE [doc |-> T, s |-> Max(s - 1, 0), e |-> Max(s - 1, 0)]
  ELSE IF k.key = "ArrowRight"
  THEN IF k.shift THEN [doc |-> T, s |-> s, e |-> Min(e + 1, Len(T))]
       ELSE IF s < e THEN [doc |-> T, s |-> e, e |-> e]
       ELSE [doc |-> T, s |-> Min(e + 1, Len(T)), e |-> Min(e + 1, Len(T))]
  ELSE IF k.key = "ArrowUp"
  THEN [doc |-> T, s |-> LastIndexOfNL(Slice(T, 0, s)) + 1,
        e |-> LastIndexOfNL(Slice(T, 0, s)) + 1]
  ELSE IF k.key = "ArrowDown"
  THEN [doc |-> T, s |-> Len(T), e |-> Len(T)]
  ELSE [doc |-> T, s |-> s, e |-> e]

\* the operations onKeyDown runs for a key that is neither Escape nor
\* intercepted for the palette: handleAutoClose, then the shortcuts
KeyOps(k, T, ta, s, e) ==
  <<Tag("autoPair", handleAutoClose(T, s, e, k.key))>>
  \o (IF k.mod /\ k.key \in {"b", "B"} THEN <<Named("bold", T, ta, s, e)>> ELSE <<>>)
  \o (IF k.mod /\ k.key \in {"i", "I"} THEN <<Named("italic", T, ta, s, e)>> ELSE <<>>)
  \o (IF k.mod /\ k.key = "k" THEN <<Named("link", T, ta, s, e)>> ELSE <<>>)

\* the name under which the history records a key: the keys onKeyDown tests
\* for by name, "key" for the others
KeyName(k) ==
  IF k.key \in {"Escape", "Enter", "ArrowUp", "ArrowDown", "/"} \cup DOMAIN pairs \/ k.mod
  THEN k.key ELSE "key"

\* e.preventDefault() was called for the key
KeyPrevented(k, s, e) ==
  \/ s = e /\ k.key \in DOMAIN pairs
  \/ k.mod /\ k.key \in {"b", "B", "i", "I", "k"}

(***************************************************************************)
(* Initial state: the editor mounted with an empty value, in split view.   *)
(***************************************************************************)
\* a token of marked: its type, the level it is rendered at, for a raw-HTML
\* token the elements its text parses to, whether it has a raw property and
\* that property, and its text property
Token(type, level, elems, hasRaw, raw, text) ==
  [type |-> type, level |-> level, elems |-> elems, hasRaw |-> hasRaw,
   raw |-> raw, text |-> text]

NoToken == Token("none", "none", <<>>, FALSE, <<>>, <<>>)

\* what a case of the renderer returns: null, an element or a text
Output(kind, text) == [kind |-> kind, text |-> text]

NoOutput == Output("none", <<>>)

\* a handler registered by the effect: the localValue its insertAtCursor
\* closes over
Closure(T) == [T |-> T]

NoClosure == [T |-> <<"none">>]

\* a request: its pathname and the values of its three session cookies
Request(pathname, cookies) == [pathname |-> pathname, cookies |-> cookies]

NoRequest == Request(<<>>, <<>>)

\* what is returned for a request: NextResponse.next() or a redirect to a
\* target with a callbackUrl; "unmatched" when the matcher keeps the request
\* from the middleware
Response(kind, to, callbackUrl) == [kind |-> kind, to |-> to, callbackUrl |-> callbackUrl]

NoResponse == Response("none", "none", <<>>)

\* the middleware where it is not followed
MiddlewareIdle ==
  /\ appUrlSet = FALSE
  /\ request = NoRequest
  /\ authAnswer = "none"
  /\ response = NoResponse

\* the event listener where it is not followed
ListenerIdle ==
  /\ editorMounted = TRUE
  /\ insertHandlers = <<>>
  /\ cleanupHandler = NoClosure

\* no render recorded
NoRender == [text |-> <<>>, theme |-> "none", out |-> <<>>]

\* the preview where it is not followed: marked configured, nothing recorded
PreviewIdle ==
  /\ markedBreaks = TRUE
  /\ theme = "light"
  /\ parsedTokens = <<>>
  /\ renderedMarkdown = <<>>
  /\ firstRender = NoRender

EditorInit ==
  /\ localValue = <<>>
  /\ value = <<>>
  /\ selStart = 0
  /\ selEnd = 0
  /\ activeView = "split"
  /\ listenersAttached = TRUE
  /\ showSlashMenu = FALSE
  /\ slashQuery = <<>>
  /\ showFloatingToolbar = FALSE
  /\ rafQueue = <<>>
  /\ Idle
  /\ last = NoHandler

Init ==
  /\ EditorInit
  /\ hasWindow = TRUE
  /\ htmlToken = NoToken
  /\ rendered = <<>>
  /\ emitted = NoOutput
  /\ PreviewIdle
  /\ ListenerIdle
  /\ MiddlewareIdle

(***************************************************************************)
(* Handlers.                                                               *)
(***************************************************************************)
\* Intercepted leaving Enter to the textarea
Intercepted_NotEnter(k) == showSlashMenu /\ k.key \in {"ArrowDown", "ArrowUp"}

\* onKeyDown's test for the keys reserved for the palette while it is shown
Intercepted(k) == showSlashMenu /\ k.key \in {"ArrowDown", "ArrowUp", "Enter"}

\* onKeyDown, followed by the widget's default handling of the key and the
\* onChange it raises when the default was not prevented
KeyDown(k) ==
  /\ hasTextarea
  /\ Idle
  /\ Small(localValue)
  /\ Inserted(k) # <<>> => Len(localValue) - (selEnd - selStart) < MaxLen
  /\ pendingKey' = IF k.key = "Escape" THEN "Escape" ELSE "key"
  /\ UNCHANGED <<activeView, renderVars, listenerVars,
                 middlewareVars>>
  /\ IF k.key = "Escape"
     THEN /\ showSlashMenu' = FALSE
          /\ slashQuery' = NoQuery
          /\ showFloatingToolbar' = FALSE
          /\ last' = Handler("keydown", KeyName(k), <<>>, FALSE)
          /\ UNCHANGED <<localValue, value, selStart, selEnd, listenersAttached, rafQueue>>
     ELSE IF Intercepted(k)
     THEN /\ last' = Handler("keydown", KeyName(k), <<>>, TRUE)
          /\ UNCHANGED <<localValue, value, selStart, selEnd, listenersAttached,
                         rafQueue, showSlashMenu, slashQuery, showFloatingToolbar>>
     ELSE LET ops == KeyOps(k, localValue, hasTextarea, selStart, selEnd)
              prevented == KeyPrevented(k, selStart, selEnd)
              edit == DefaultEdit(k, localValue, selStart, selEnd)
          IN /\ UNCHANGED <<showSlashMenu, slashQuery, showFloatingToolbar>>
             /\ IF prevented
                THEN /\ Commit(ops)
                     /\ last' = Handler("keydown", KeyName(k), ops, TRUE)
                ELSE \* onChange={(e) => updateValue(e.target.value)}
                     /\ localValue' = edit.doc
                     /\ value' = IF edit.doc # localValue THEN edit.doc ELSE value
                     /\ selStart' = edit.s
                     /\ selEnd' = edit.e
                     /\ listenersAttached' =
                          IF edit.doc # localValue THEN TRUE ELSE listenersAttached
                     /\ rafQueue' = rafQueue
                     /\ last' = Handler("keydown", KeyName(k), ops, FALSE)

\* keyup on the textarea: handleInput and handleSelection, when attached
KeyUp ==
  /\ pendingKey # NoKey
  /\ pendingKey' = NoKey
  /\ last' = NoHandler
  /\ UNCHANGED <<localValue, value, selStart, selEnd, activeView, listenersAttached,
                 rafQueue, renderVars, listenerVars,
                 middlewareVars>>
  /\ IF listenersAttached
     THEN /\ showSlashMenu' = handleInput(localValue, selStart).show
          /\ slashQuery' = handleInput(localValue, selStart).query
          /\ \E winSel \in BOOLEAN :
               showFloatingToolbar' = handleSelection(localValue, selStart, selEnd, winSel)
     ELSE UNCHANGED <<showSlashMenu, slashQuery, showFloatingToolbar>>

\* the user sets the selection with the mouse: mouseup and select events
MouseSelect(s, e) ==
  /\ hasTextarea
  /\ Idle
  /\ Small(localValue)
  /\ s <= e
  /\ selStart' = s
  /\ selEnd' = e
  /\ last' = NoHandler
  /\ UNCHANGED <<localValue, value, activeView, listenersAttached, showSlashMenu,
                 slashQuery, rafQueue, pendingKey, renderVars, listenerVars,
                 middlewareVars>>
  /\ IF listenersAttached
     THEN \E winSel \in BOOLEAN :
            showFloatingToolbar' = handleSelection(localValue, s, e, winSel)
     ELSE UNCHANGED showFloatingToolbar

ToolbarButtons == {"heading1", "bold", "italic", "superscript", "break", "color"}

FloatingButtons == {"bold", "italic", "inlineCode", "link"}

\* a button of the main toolbar, or the colour picker
ToolbarClick(name) ==
  /\ Idle
  /\ Small(localValue)
  /\ LET ops == <<Named(name, localValue, hasTextarea, selStart, selEnd)>>
     IN /\ Commit(ops)
        /\ last' = Handler("toolbar", name, ops, FALSE)
  /\ UNCHANGED <<activeView, showSlashMenu, slashQuery, showFloatingToolbar,
                 pendingKey, renderVars, listenerVars,
                 middlewareVars>>

\* a button of the floating selection toolbar
FloatingClick(name) ==
  /\ showFloatingToolbar
  /\ Idle
  /\ Small(localValue)
  /\ LET ops == <<Named(name, localValue, hasTextarea, selStart, selEnd)>>
     IN /\ Commit(ops)
        /\ last' = Handler("floating", name, ops, FALSE)
  /\ UNCHANGED <<activeView, showSlashMenu, slashQuery, showFloatingToolbar,
                 pendingKey, renderVars, listenerVars,
                 middlewareVars>>

\* a palette command is selected: cmd.command()
SlashCommand(c) ==
  /\ showSlashMenu
  /\ c \in filteredSlashCommands(slashQuery)
  /\ Idle
  /\ Small(localValue)
  /\ LET rm == Named("removeSlash", localValue, hasTextarea, selStart, selEnd)
         ops == IF c = "Image" THEN <<rm>>
                ELSE <<rm, Named(CommandOp(c), localValue, hasTextarea, selStart, selEnd)>>
     IN /\ Commit(ops)
        /\ last' = Handler("command", c, ops, FALSE)
  /\ showSlashMenu' = FALSE
  /\ slashQuery' = NoQuery
  /\ UNCHANGED <<activeView, showFloatingToolbar, pendingKey, renderVars, listenerVars,
                 middlewareVars>>

\* an image is chosen in the image picker (opened by the Image button or
\* left open by the Image command): insertImage
InsertImage(width, height, alt) ==
  /\ Idle
  /\ Small(localValue)
  /\ LET ops == <<[Tag("image", insertImage(localValue, hasTextarea, selStart, selEnd,
                                            <<"u">>, width, height, alt))
                     EXCEPT !.args = <<width, height, alt>>]>>
     IN /\ Commit(ops)
        /\ last' = Handler("image", "image", ops, FALSE)
  /\ UNCHANGED <<activeView, showSlashMenu, slashQuery, showFloatingToolbar,
                 pendingKey, renderVars, listenerVars,
                 middlewareVars>>

\* the snippets dispatched to the editor: the empty string and the img tag
\* the host's image picker builds
EventSnippets == {<<>>, ImageSnippet(<<"u">>, <<>>, <<>>, <<>>)}

\* the document's "markdown-editor-insert" event: insertAtCursor of the
\* snippet in the event's detail, nothing for an empty snippet
InsertEvent(snippet) ==
  /\ Idle
  /\ Small(localValue)
  /\ LET ops == IF snippet = <<>> THEN <<>>
                ELSE <<Tag("insertEvent", insertAtCursor(localValue, hasTextarea, selStart,
                                                         selEnd, snippet, FALSE))>>
     IN /\ Commit(ops)
        /\ last' = Handler("event", "insertEvent", ops, FALSE)
  /\ UNCHANGED <<activeView, showSlashMenu, slashQuery, showFloatingToolbar,
                 pendingKey, renderVars, listenerVars,
                 middlewareVars>>

\* the views explored; the edit view renders the textarea as the split view does
Views == {"split", "preview"}

\* a view button: the textarea is unmounted in the preview view and a new
\* one is mounted on the way back
SetView(v) ==
  /\ Idle
  /\ Small(localValue)
  /\ v # activeView
  /\ activeView' = v
  /\ last' = NoHandler
  /\ UNCHANGED <<localValue, value, showSlashMenu, slashQuery, showFloatingToolbar,
                 pendingKey, renderVars, listenerVars,
                 middlewareVars>>
  /\ IF v = "preview"
     THEN /\ selStart' = 0
          /\ selEnd' = 0
          /\ listenersAttached' = FALSE
          /\ rafQueue' = <<>>
     ELSE IF activeView = "preview"
     THEN /\ \E c \in {0, Len(localValue)} : selStart' = c /\ selEnd' = c
          /\ listenersAttached' = FALSE
          /\ rafQueue' = rafQueue
     ELSE UNCHANGED <<selStart, selEnd, listenersAttached, rafQueue>>

\* the host passes another value prop: the effect on [value] copies it
HostValues == {<<>>, <<"a">>}

HostSetValue(v) ==
  /\ pendingKey = NoKey
  /\ v # value
  /\ value' = v
  /\ localValue' = v
  /\ last' = NoHandler
  /\ IF v # localValue
     THEN /\ selStart' = IF hasTextarea THEN Len(v) ELSE selStart
          /\ selEnd' = IF hasTextarea THEN Len(v) ELSE selEnd
          /\ listenersAttached' = hasTextarea
     ELSE UNCHANGED <<selStart, selEnd, listenersAttached>>
  /\ UNCHANGED <<activeView, showSlashMenu, slashQuery, showFloatingToolbar,
                 rafQueue, pendingKey, renderVars, listenerVars,
                 middlewareVars>>

\* textarea.setSelectionRange(from, to): offsets beyond the text are clamped
setSelectionRange(r, len) ==
  [from |-> Min(Min(r.from, r.to), len), to |-> Min(r.to, len)]

\* an animation frame: the queued callbacks run in the order they were queued
Frame ==
  /\ rafQueue # <<>>
  /\ hasTextarea
  /\ rafQueue' = <<>>
  /\ selStart' = setSelectionRange(rafQueue[Len(rafQueue)], Len(localValue)).from
  /\ selEnd' = setSelectionRange(rafQueue[Len(rafQueue)], Len(localValue)).to
  /\ last' = IF last.kind = "idle" THEN last ELSE [last EXCEPT !.applied = TRUE]
  /\ UNCHANGED <<localValue, value, activeView, listenersAttached, showSlashMenu,
                 slashQuery, showFloatingToolbar, pendingKey, renderVars, listenerVars,
                 middlewareVars>>

ImageAttrs == {<<>>, <<"9">>}

(***************************************************************************)
(* Spec: the editor under keyboard, mouse, palette, floating toolbar, view *)
(* buttons and host updates.                                               *)
(***************************************************************************)
Next ==
  \/ \E k \in Keys : KeyDown(k)
  \/ KeyUp
  \/ \E s \in 0..Len(localValue), e \in 0..Len(localValue) : MouseSelect(s, e)
  \/ \E name \in FloatingButtons : FloatingClick(name)
  \/ \E c \in slashCommands : SlashCommand(c)
  \/ \E v \in Views : SetView(v)
  \/ \E v \in HostValues : HostSetValue(v)
  \/ Frame

Spec == Init /\ [][Next]_vars

(***************************************************************************)
(* EngineSpec: every operation of the Text Mutation Engine applied once,   *)
(* through the handler that invokes it, to every text over TextChars of at *)
(* most MaxLen characters, every selection of it, with and without the     *)
(* textarea, followed by the animation frame.                              *)
(***************************************************************************)
TextChars == {"/", "a", " ", "\n"}

Texts == UNION {[1..n -> TextChars] : n \in 0..MaxLen} \cup {UrlOpen}

EngineInit ==
  /\ localValue \in Texts
  /\ value = localValue
  /\ activeView \in Views
  /\ selStart \in 0..Len(localValue)
  /\ selEnd \in selStart..Len(localValue)
  /\ hasTextarea \/ (selStart = 0 /\ selEnd = 0)
  /\ listenersAttached = hasTextarea
  /\ showSlashMenu \in BOOLEAN
  /\ slashQuery = <<>>
  /\ showFloatingToolbar \in BOOLEAN
  /\ rafQueue = <<>>
  /\ pendingKey = NoKey
  /\ last = NoHandler
  /\ hasWindow = TRUE
  /\ htmlToken = NoToken
  /\ rendered = <<>>
  /\ emitted = NoOutput
  /\ PreviewIdle
  /\ ListenerIdle
  /\ MiddlewareIdle

EngineNext ==
  \/ /\ last = NoHandler
     /\ \/ \E name \in ToolbarButtons : ToolbarClick(name)
        \/ \E name \in FloatingButtons : FloatingClick(name)
        \/ \E c \in slashCommands : SlashCommand(c)
        \/ \E w \in ImageAttrs, h \in ImageAttrs, alt \in ImageAttrs : InsertImage(w, h, alt)
        \/ \E snippet \in EventSnippets : InsertEvent(snippet)
        \/ \E k \in EngineKeys : KeyDown(k)
  \/ Frame

EngineSpec == EngineInit /\ [][EngineNext]_vars

(***************************************************************************)
(* Renderer: raw-HTML tokens.  The text of a token is the sequence of the  *)
(* elements it parses to, each a tag name and a set of attribute names.    *)
(***************************************************************************)
HtmlAllowedTags == {"span", "img", "sup", "sub", "br"}

HtmlAllowedAttr == {"style", "src", "alt", "width", "height", "title"}

\* DOMPurify.sanitize(text, {ALLOWED_TAGS, ALLOWED_ATTR}): elements whose tag
\* is not allowed are removed; an attribute is kept when it is allowed, and
\* also when it is a data-* or aria-* attribute, because the call leaves
\* ALLOW_DATA_ATTR and ALLOW_ARIA_ATTR at their default (true)
IsDataOrAria(attr) == attr \in {"data-x", "aria-label"}

RECURSIVE sanitize(_, _, _)
sanitize(elems, allowedTags, allowedAttr) ==
  IF elems = <<>> THEN <<>>
  ELSE LET el == Head(elems)
           rest == sanitize(Tail(elems), allowedTags, allowedAttr)
       IN IF el.tag \in allowedTags
          THEN <<[tag |-> el.tag,
                  attrs |-> {a \in el.attrs : a \in allowedAttr \/ IsDataOrAria(a)}]>>
               \o rest
          ELSE rest

\* the characters of a tag name as they follow "<" in the token's text
Spelling(tag) ==
  CASE tag = "span" -> <<"s", "p", "a", "n">>
    [] tag = "img" -> <<"i", "m", "g">>
    [] tag = "sup" -> <<"s", "u", "p">>
    [] tag = "sub" -> <<"s", "u", "b">>
    [] tag = "br" -> <<"b", "r">>
    [] tag = "p" -> <<"p">>
    [] tag = "script" -> <<"s", "c", "r", "i", "p", "t">>
    [] tag = "supper" -> <<"s", "u", "p", "p", "e", "r">>

\* HtmlAllowedTags.some((tag) => token.text?.includes(`<${tag}`)): the text
\* holds "<" followed by the characters of an allowed tag name
prefilter(token) ==
  \E i \in 1..Len(token.elems), tag \in HtmlAllowedTags :
    StartsWith(Spelling(token.elems[i].tag), Spelling(tag))

\* renderInline, case "html"
renderInlineHtml(token, window) ==
  IF ~prefilter(token)
  THEN <<>>
  ELSE IF window
       THEN sanitize(token.elems, HtmlAllowedTags, HtmlAllowedAttr)
       ELSE token.elems

\* renderBlocks, case "html"
renderBlockHtml(token, window) ==
  IF window
  THEN sanitize(token.elems, {"p", "div"} \cup HtmlAllowedTags, HtmlAllowedAttr)
  ELSE token.elems

\* the tags and attributes of the tokens explored
TokenTags == {"span", "p", "script", "supper"}

TokenAttrs == {"style", "onerror", "data-x"}

Elements == [tag : TokenTags, attrs : SUBSET TokenAttrs]

HtmlTokens ==
  {Token("html", level, elems, TRUE, <<>>, <<>>) :
     level \in {"inline", "block"},
     elems \in UNION {[1..n -> Elements] : n \in 1..MaxElems}}

\* the element returned for a raw-HTML token, null for an inline token the
\* prefilter drops
renderHtml(token) ==
  IF token.level = "inline" /\ ~prefilter(token)
  THEN Output("null", <<>>)
  ELSE Output("element", <<>>)

\* renderInline, default: token.raw ?? null
renderInlineDefault(token) ==
  IF token.hasRaw THEN Output("text", token.raw) ELSE Output("null", <<>>)

\* renderBlocks, default: null
renderBlockDefault(token) == Output("null", <<>>)

\* input.replace(/pat/g, rep): every occurrence of pat, scanning left to right
RECURSIVE ReplaceAll(_, _, _)
ReplaceAll(s, pat, r) ==
  IF s = <<>> THEN <<>>
  ELSE IF StartsWith(s, pat)
       THEN r \o ReplaceAll(SubSeq(s, Len(pat) + 1, Len(s)), pat, r)
       ELSE <<Head(s)>> \o ReplaceAll(Tail(s), pat, r)

\* decodeHtmlEntities: the five replacements, one after the other
decodeHtmlEntities(input) ==
  LET lt == ReplaceAll(input, <<"&", "l", "t", ";">>, <<"<">>)
      gt == ReplaceAll(lt, <<"&", "g", "t", ";">>, <<">">>)
      amp == ReplaceAll(gt, <<"&", "a", "m", "p", ";">>, <<"&">>)
      quot == ReplaceAll(amp, <<"&", "q", "u", "o", "t", ";">>, <<"\"">>)
  IN ReplaceAll(quot, <<"&", "#", "3", "9", ";">>, <<"'">>)

\* the entity written for one character by the tokenizer's escaping
EscapeChar(c) ==
  CASE c = "&" -> <<"&", "a", "m", "p", ";">>
    [] c = "<" -> <<"&", "l", "t", ";">>
    [] c = ">" -> <<"&", "g", "t", ";">>
    [] c = "\"" -> <<"&", "q", "u", "o", "t", ";">>
    [] c = "'" -> <<"&", "#", "3", "9", ";">>
    [] OTHER -> <<c>>

\* the tokenizer's escaping of a code span's text
RECURSIVE escape(_)
escape(s) ==
  IF s = <<>> THEN <<>> ELSE EscapeChar(Head(s)) \o escape(Tail(s))

\* characters written inside a code span
EntityChars == {"&", "<", "\"", "'", "#", "3", "9", ";", "a"}

\* the texts written inside a code span
EntityTexts == UNION {[1..n -> EntityChars] : n \in 1..MaxEntityLen}

\* the code span tokens the tokenizer delivers: raw is the source text
\* between backquotes, text is its escaped content
CodespanTokens ==
  {Token("codespan", "inline", <<>>, TRUE, <<"bq">> \o s \o <<"bq">>, escape(s)) :
     s \in EntityTexts}

\* renderInline, case "codespan": <code>{decodeHtmlEntities(token.text)}</code>
renderCodespan(token) == Output("element", decodeHtmlEntities(token.text))

\* tokens of a type the renderer has no case for, with and without raw text
UnknownTokens ==
  {Token("unknown", level, <<>>, hasRaw, raw, <<>>) :
     level \in {"inline", "block"}, hasRaw \in BOOLEAN, raw \in {<<>>, <<"a">>}}

\* the execution context: a browser (window defined) or a server render
RenderInit ==
  /\ EditorInit
  /\ hasWindow \in BOOLEAN
  /\ htmlToken = NoToken
  /\ rendered = <<>>
  /\ emitted = NoOutput
  /\ PreviewIdle
  /\ ListenerIdle
  /\ MiddlewareIdle

\* renderMarkdownTokens reaches a raw-HTML token
Render(token) ==
  /\ htmlToken = NoToken
  /\ htmlToken' = token
  /\ rendered' = IF token.level = "inline"
                 THEN renderInlineHtml(token, hasWindow)
                 ELSE renderBlockHtml(token, hasWindow)
  /\ emitted' = renderHtml(token)
  /\ UNCHANGED <<hasWindow, editorVars, listenerVars, middlewareVars,
                 markedBreaks, theme, parsedTokens,
                 renderedMarkdown, firstRender>>

\* renderMarkdownTokens reaches a token of a type it has no case for
RenderUnknown(token) ==
  /\ htmlToken = NoToken
  /\ htmlToken' = token
  /\ rendered' = <<>>
  /\ emitted' = IF token.level = "inline"
                THEN renderInlineDefault(token)
                ELSE renderBlockDefault(token)
  /\ UNCHANGED <<hasWindow, editorVars, listenerVars, middlewareVars,
                 markedBreaks, theme, parsedTokens,
                 renderedMarkdown, firstRender>>

\* renderMarkdownTokens reaches a code span
RenderCodespan(token) ==
  /\ htmlToken = NoToken
  /\ htmlToken' = token
  /\ rendered' = <<>>
  /\ emitted' = renderCodespan(token)
  /\ UNCHANGED <<hasWindow, editorVars, listenerVars, middlewareVars,
                 markedBreaks, theme, parsedTokens,
                 renderedMarkdown, firstRender>>

\* one token is rendered, once
RenderNext ==
  /\ htmlToken = NoToken
  /\ \/ \E token \in HtmlTokens : Render(token)
     \/ \E token \in UnknownTokens : RenderUnknown(token)
     \/ \E token \in CodespanTokens : RenderCodespan(token)

RenderSpec == RenderInit /\ [][RenderNext]_vars

(***************************************************************************)
(* Properties.                                                             *)
(***************************************************************************)
\* a step that is a handler invoking operations of the engine
HandlerStep == last'.kind # "idle" /\ ~last'.applied

IsPrefix(p, t) == Len(p) <= Len(t) /\ SubSeq(t, 1, Len(p)) = p

\* the whole line the cursor is on
CurrentLine ==
  LET ls == LastIndexOfNL(Slice(localValue, 0, selStart)) + 1
      nl == IndexOf(SliceFrom(localValue, selStart), <<"\n">>)
  IN Slice(localValue, ls, IF nl = -1 THEN Len(localValue) ELSE selStart + nl)

\* the markdown a palette command inserts at a collapsed cursor
CommandMarkdown(c) ==
  IF c = "Image" THEN <<>> ELSE Apply(CommandOp(c), <<>>, TRUE, 0, 0).doc

\* C1: when a palette command is selected while the text before the (collapsed)
\* cursor on the current line is a slash token, the Document after the handler
\* is the old one with the text from the line start through the cursor
\* replaced by the command's markdown.
C1_SlashTokenRemoved ==
  [][(/\ HandlerStep
      /\ last'.kind = "command"
      /\ hasTextarea
      /\ selStart = selEnd
      /\ StartsWith(LineSoFar, <<"/">>))
     => localValue' =
          Slice(localValue, 0, selStart - Len(LineSoFar))
            \o CommandMarkdown(last'.name) \o SliceFrom(localValue, selStart)]_vars

\* C2: with a DOM sanitizer available, the output for a raw-HTML token holds
\* only tags of the allow-list (with p and div at block level) and only
\* attributes of the allow-list.
C2_AllowListOnly ==
  hasWindow =>
    \A i \in 1..Len(rendered) :
      /\ rendered[i].tag \in
           (IF htmlToken.level = "block" THEN {"p", "div"} ELSE {}) \cup HtmlAllowedTags
      /\ rendered[i].attrs \subseteq HtmlAllowedAttr

\* C3: every offset an operation hands to its deferred cursor placement lies
\* within the text that operation produced.
C3_OffsetSafety ==
  \A i \in 1..Len(last.ops) :
    \A j \in 1..Len(last.ops[i].raf) :
      /\ 0 <= last.ops[i].raf[j].from
      /\ last.ops[i].raf[j].from <= Len(last.ops[i].doc)
      /\ 0 <= last.ops[i].raf[j].to
      /\ last.ops[i].raf[j].to <= Len(last.ops[i].doc)

\* C3 witness: insertLink has run on a non-empty selection of a live widget
\* and its range has been applied.
C3_Witness ==
  /\ last.kind = "floating" /\ last.name = "link" /\ last.applied
  /\ hasTextarea
  /\ selEnd - selStart = Len(ExampleUrl)
  /\ \E i \in 1..Len(localValue) : localValue[i] = "a"

C5_EscapeDeactivates ==
  [][/\ (pendingKey = NoKey /\ pendingKey' = "Escape")
          => (localValue' = localValue /\ selStart' = selStart /\ selEnd' = selEnd)
     /\ (pendingKey = "Escape" /\ pendingKey' = NoKey /\ last.active)
          => (/\ ~showSlashMenu'
              /\ localValue' = localValue /\ selStart' = selStart /\ selEnd' = selEnd)]_vars

\* the key-up of a "/" typed at the start of an empty line: the key-down
\* inserted it into the text it read (last.ops[1].doc) without replacing
\* anything, and it is alone on its line
SlashTypedOnEmptyLine ==
  /\ pendingKey # NoKey /\ pendingKey' = NoKey
  /\ last.kind = "keydown" /\ last.name = "/" /\ ~last.prevented
  /\ last.ops[1].doc = Slice(localValue, 0, selStart - 1) \o SliceFrom(localValue, selStart)
  /\ CurrentLine = <<"/">>
  /\ LineSoFar = <<"/">>

\* the palette goes from Inactive to Active with the empty query
BecomesActiveEmpty == ~showSlashMenu /\ showSlashMenu' /\ slashQuery' = <<>>

\* C6 as stated: typing "/" at the start of an empty line activates the
\* palette with the empty query, and the palette becomes Active("") only
\* when the current line holds exactly "/".
C6_Original ==
  [][/\ SlashTypedOnEmptyLine => (showSlashMenu' /\ slashQuery' = <<>>)
     /\ BecomesActiveEmpty => CurrentLine' = <<"/">>]_vars

\* C6 amended: typing "/" at the start of an empty line activates the palette
\* with the empty query, and the palette becomes Active("") only when the
\* text from the start of the current line to the cursor is exactly "/".
C6_ActivationOnSlash ==
  [][/\ SlashTypedOnEmptyLine => (showSlashMenu' /\ slashQuery' = <<>>)
     /\ BecomesActiveEmpty => LineSoFar' = <<"/">>]_vars

\* C6 witness: "/" typed into the empty Document, palette Active("").
C6_Witness ==
  /\ localValue = <<"/">> /\ selStart = 1 /\ selEnd = 1
  /\ showSlashMenu /\ slashQuery = <<>>
  /\ pendingKey = NoKey

\* C7: after every key-up, with L the text from the line start to the cursor,
\* the palette is Active(L without its "/") if L starts with "/" and has no
\* space, and Inactive otherwise.
C7_PaletteFollowsLine ==
  [][(pendingKey # NoKey /\ pendingKey' = NoKey)
     => IF StartsWith(LineSoFar', <<"/">>) /\ ~Includes(LineSoFar', " ")
        THEN showSlashMenu' /\ slashQuery' = SliceFrom(LineSoFar', 1)
        ELSE ~showSlashMenu']_vars

\* C8: the palette and the floating toolbar are never both visible.
C8_MutuallyExclusive == ~(showSlashMenu /\ showFloatingToolbar)

\* the content a wrap operation wraps
WrapContent(name, T, s, e) == Selected(T, s, e, WrapPlaceholder(name))

\* C9: a wrap operation on a live widget yields T[0..s) + pre + content + suf
\* + T[e..); stripping pre and suf at s and s + |pre| + |content| gives the
\* content back, and the text outside [s, e) is unchanged.
C9_WrapRoundTrip ==
  [][(HandlerStep /\ hasTextarea)
     => \A i \in 1..Len(last'.ops) :
          last'.ops[i].name \in WrapNames =>
            LET name == last'.ops[i].name
                doc == last'.ops[i].doc
                pre == WrapBefore(name)
                suf == WrapAfter(name)
                content == IF selStart < selEnd
                           THEN Slice(localValue, selStart, selEnd)
                           ELSE WrapPlaceholder(name)
                a == selStart + Len(pre)
                b == a + Len(content)
            IN /\ doc = Slice(localValue, 0, selStart) \o pre \o content \o suf
                          \o SliceFrom(localValue, selEnd)
               /\ Slice(doc, selStart, a) = pre
               /\ Slice(doc, a, b) = content
               /\ Slice(doc, b, b + Len(suf)) = suf
               /\ Slice(doc, 0, selStart) = Slice(localValue, 0, selStart)
               /\ SliceFrom(doc, b + Len(suf)) = SliceFrom(localValue, selEnd)]_vars

\* C9 witness: bold has wrapped a non-empty selection of a live widget.
C9_Witness ==
  /\ last.kind = "toolbar" /\ last.name = "bold" /\ hasTextarea
  /\ localValue = <<"a">> \o BoldMark \o <<"/">> \o BoldMark

\* C10: the range a wrap operation hands to its deferred selection addresses
\* the wrapped content: it selects the content, or it is a cursor inside the
\* delimiters.
C10_ContentAddressable ==
  [][(HandlerStep /\ hasTextarea)
     => \A i \in 1..Len(last'.ops) :
          last'.ops[i].name \in WrapNames =>
            LET name == last'.ops[i].name
                r == last'.ops[i].raf[1]
                a == selStart + Len(WrapBefore(name))
                b == a + Len(WrapContent(name, localValue, selStart, selEnd))
            IN \/ r.from = a /\ r.to = b
               \/ r.from = r.to /\ a <= r.from /\ r.from <= b]_vars

\* the operation names of insertHeading and the level each passes
HeadingNames == {"heading1", "heading2", "heading3"}

HeadingLevel(name) ==
  CASE name = "heading1" -> 1
    [] name = "heading2" -> 2
    [] name = "heading3" -> 3

\* offset of the start of the line the cursor is on
LineStart == LastIndexOfNL(Slice(localValue, 0, selStart)) + 1

\* the selection is collapsed in the middle of a line: the line has text
\* before the cursor and text after it
CollapsedMidLine ==
  /\ selStart = selEnd
  /\ LineSoFar # <<>>
  /\ Len(CurrentLine) > Len(LineSoFar)

\* C11: insertHeading of level N with a collapsed selection in the middle of
\* a non-empty line yields the old text with only "#"*N + " " inserted at the
\* start of that line (no placeholder word).
C11_HeadingReusesLine ==
  [][(HandlerStep /\ hasTextarea /\ CollapsedMidLine)
     => \A i \in 1..Len(last'.ops) :
          last'.ops[i].name \in HeadingNames =>
            last'.ops[i].doc =
              Slice(localValue, 0, LineStart)
                \o HeadingPrefix(HeadingLevel(last'.ops[i].name))
                \o SliceFrom(localValue, LineStart)]_vars

\* the operation names of insertList and the marker each inserts
ListNames == {"bulletList", "numberedList"}

ListMarker(name) == IF name = "numberedList" THEN OrderedPrefix ELSE BulletPrefix

IsSuffix(p, t) == Len(p) <= Len(t) /\ SubSeq(t, Len(t) - Len(p) + 1, Len(t)) = p

\* C12: insertList on a live widget yields the old text with only a line
\* break and the marker added, and the marker stands ahead of the text that
\* ran from the cursor on.
C12_ListOnlyAdds ==
  [][(HandlerStep /\ hasTextarea)
     => \A i \in 1..Len(last'.ops) :
          last'.ops[i].name \in ListNames =>
            LET doc == last'.ops[i].doc
                added == <<"\n">> \o ListMarker(last'.ops[i].name)
            IN /\ \E p \in 0..Len(localValue) :
                    doc = Slice(localValue, 0, p) \o added \o SliceFrom(localValue, p)
               /\ IsSuffix(added \o SliceFrom(localValue, selStart), doc)]_vars

\* C13: insertLink on a live widget replaces the selection (or the placeholder)
\* by "[text](https://example.com)" and the range it hands to its deferred
\* selection covers exactly the URL of the inserted link.
C13_LinkSelectsUrl ==
  [][(HandlerStep /\ hasTextarea)
     => \A i \in 1..Len(last'.ops) :
          last'.ops[i].name = "link" =>
            LET text == Selected(localValue, selStart, selEnd, PhLinkText)
                urlAt == selStart + 1 + Len(text) + 2
                doc == last'.ops[i].doc
                r == last'.ops[i].raf[1]
            IN /\ doc = Slice(localValue, 0, selStart)
                          \o <<"[">> \o text \o <<"]", "(">> \o ExampleUrl \o <<")">>
                          \o SliceFrom(localValue, selEnd)
               /\ r.from = urlAt
               /\ r.to = urlAt + Len(ExampleUrl)
               /\ Slice(doc, r.from, r.to) = ExampleUrl]_vars

\* C14: insertBreak inserts the rule text and replaces nothing: the new text
\* is the old one with "\n\n---\n\n" inserted at one position, for every
\* selection.
C14_BreakReplacesNothing ==
  [][HandlerStep
     => \A i \in 1..Len(last'.ops) :
          last'.ops[i].name = "break" =>
            \E p \in 0..Len(localValue) :
              last'.ops[i].doc =
                Slice(localValue, 0, p) \o BreakSnippet \o SliceFrom(localValue, p)]_vars

\* the text holds the attribute: a space, the attribute's name, ="
HasAttr(doc, attr) == IndexOf(doc, <<" ">> \o attr \o <<"=", "\"">>) # -1

\* the text holds the attribute with the given value
HasAttrValue(doc, attr, v) ==
  IndexOf(doc, <<" ">> \o attr \o <<"=", "\"">> \o v \o <<"\"">>) # -1

\* C15 as stated: in the tag insertImage emits, each of width, height and alt
\* is present if and only if its input is non-empty.
C15_Original ==
  [][HandlerStep
     => \A i \in 1..Len(last'.ops) :
          last'.ops[i].name = "image" =>
            LET doc == last'.ops[i].doc
                args == last'.ops[i].args
            IN /\ HasAttr(doc, <<"w", "i", "d", "t", "h">>) <=> args[1] # <<>>
               /\ HasAttr(doc, <<"h", "e", "i", "g", "h", "t">>) <=> args[2] # <<>>
               /\ HasAttr(doc, <<"a", "l", "t">>) <=> args[3] # <<>>]_vars

\* C15 amended: in the tag insertImage emits, each of width and height is
\* present if and only if its input is non-empty, and alt is always present
\* with the alt input as its value (the empty value for an empty input).
C15_ImageAttributes ==
  [][HandlerStep
     => \A i \in 1..Len(last'.ops) :
          last'.ops[i].name = "image" =>
            LET doc == last'.ops[i].doc
                args == last'.ops[i].args
            IN /\ HasAttr(doc, <<"w", "i", "d", "t", "h">>) <=> args[1] # <<>>
               /\ HasAttr(doc, <<"h", "e", "i", "g", "h", "t">>) <=> args[2] # <<>>
               /\ HasAttrValue(doc, <<"a", "l", "t">>, args[3])]_vars

\* C15 witness: an image was inserted with a width, no height and no alt.
C15_Witness ==
  /\ last.kind = "image"
  /\ last.ops[1].args = <<<<"9">>, <<>>, <<>>>>
  /\ HasAttrValue(localValue, <<"w", "i", "d", "t", "h">>, <<"9">>)
  /\ HasAttrValue(localValue, <<"a", "l", "t">>, <<>>)

\* C16: after every key-up and every mouse selection on the textarea, the
\* floating toolbar is visible if and only if the selection is non-empty.
C16_ToolbarFollowsSelection ==
  [][(KeyUp \/ \E s \in 0..Len(localValue), e \in 0..Len(localValue) : MouseSelect(s, e))
     => (showFloatingToolbar' <=> selStart' # selEnd')]_vars

\* a key-down that reached handleAutoClose: neither Escape nor a key
\* intercepted for the palette
AutoCloseStep == HandlerStep /\ last'.kind = "keydown" /\ last'.ops # <<>>

\* C17: handleAutoClose updates the text if and only if the selection is
\* collapsed and the key is one of the four opening characters; the text is
\* then T[0..s) + c + closer(c) + T[s..), the cursor s + 1 and the default
\* prevented; with a selection it updates nothing and prevents nothing.
C17_AutoPair ==
  [][AutoCloseStep
     => LET op == last'.ops[1]
            c == last'.name
            opening == c \in {"bq", "*", "_", "["}
        IN /\ op.name = "autoPair"
           /\ op.upd <=> (selStart = selEnd /\ opening)
           /\ op.upd =>
                /\ op.doc = Slice(localValue, 0, selStart)
                              \o <<c, IF c = "[" THEN "]" ELSE c>>
                              \o SliceFrom(localValue, selStart)
                /\ op.raf = <<[from |-> selStart + 1, to |-> selStart + 1]>>
                /\ last'.prevented
                /\ localValue' = op.doc
           /\ (selStart # selEnd /\ Len(last'.ops) = 1) =>
                /\ ~last'.prevented
                /\ opening => localValue' = Slice(localValue, 0, selStart) \o <<c>>
                                              \o SliceFrom(localValue, selEnd)]_vars

\* C17 witness: "[" typed at the end of "a" was paired and the cursor put
\* between the brackets.
C17_Witness ==
  /\ last.kind = "keydown" /\ last.name = "[" /\ last.prevented /\ last.applied
  /\ localValue = <<"a", "[", "]">>
  /\ selStart = 2 /\ selEnd = 2

\* the operation a shortcut letter stands for, in either letter case
ShortcutOp(key) ==
  CASE key \in {"b", "B"} -> "bold"
    [] key \in {"i", "I"} -> "italic"
    [] key \in {"k", "K"} -> "link"

\* C18: a key-down of B, I or K with Ctrl or Cmd, in either letter case, runs
\* bold, italic or link insertion exactly once and prevents the default.
C18_Shortcuts ==
  [][(HandlerStep /\ last'.kind = "keydown"
        /\ last'.name \in {"b", "B", "i", "I", "k", "K"})
     => /\ Cardinality({i \in 1..Len(last'.ops) :
                          last'.ops[i].name = ShortcutOp(last'.name)}) = 1
        /\ last'.prevented
        /\ localValue' =
             Apply(ShortcutOp(last'.name), localValue, hasTextarea, selStart, selEnd).doc]_vars

\* C19: while the palette is shown, the key-down of ArrowUp, ArrowDown or
\* Enter is prevented, runs no operation (no auto-pairing, no shortcut) and
\* leaves Document, Selection and palette state unchanged.
C19_NavigationIntercepted ==
  [][(HandlerStep /\ last'.kind = "keydown" /\ showSlashMenu
        /\ last'.name \in {"ArrowUp", "ArrowDown", "Enter"})
     => /\ last'.prevented
        /\ last'.ops = <<>>
        /\ UNCHANGED <<localValue, value, selStart, selEnd, showSlashMenu,
                       slashQuery, rafQueue>>]_vars

\* C19 witness: Enter is down on the palette opened by typing "/".
C19_Witness ==
  /\ last.kind = "keydown" /\ last.name = "Enter" /\ last.active /\ last.prevented
  /\ pendingKey # NoKey
  /\ showSlashMenu /\ slashQuery = <<>>
  /\ localValue = <<"/">> /\ selStart = 1 /\ selEnd = 1

\* a handler step in which updateValue was called
MutationStep == HandlerStep /\ \E i \in 1..Len(last'.ops) : last'.ops[i].upd

\* C20: every step that changes the editor's text leaves the host's value
\* equal to it, and after a handler that called updateValue both are the last
\* text passed to onChange; the host's value never differs from the text the
\* editor shows.
C20_HostInSync ==
  [][/\ value' = localValue'
     /\ MutationStep =>
          /\ value' = FinalDoc(localValue, last'.ops)
          /\ localValue' = FinalDoc(localValue, last'.ops)]_vars

\* C20 witness: the snippet of an insert event was put into the text "a" and
\* the host holds the resulting text.
C20_Witness ==
  /\ last.kind = "event" /\ last.ops # <<>>
  /\ value = localValue
  /\ localValue = last.ops[1].doc
  /\ HasAttr(localValue, <<"a", "l", "t">>) /\ localValue[1] = "a"

\* the animation-frame callbacks of at most three operations, first issued first
IssuedRaf(ops) ==
  (IF Len(ops) >= 1 THEN ops[1].raf ELSE <<>>)
    \o (IF Len(ops) >= 2 THEN ops[2].raf ELSE <<>>)
    \o (IF Len(ops) >= 3 THEN ops[3].raf ELSE <<>>)

\* C21: with a live widget, a handler applies its text update and leaves the
\* cursor placement of each of its mutations pending, one callback per
\* mutation in the order issued; the frame that follows changes no text and
\* leaves the selection of the callback issued last.
C21_DeferredInOrder ==
  [][/\ (HandlerStep /\ hasTextarea) =>
          /\ Len(last'.ops) <= 3
          /\ \A i \in 1..Len(last'.ops) : last'.ops[i].upd => Len(last'.ops[i].raf) = 1
          /\ rafQueue' = rafQueue \o IssuedRaf(last'.ops)
          /\ MutationStep => localValue' = FinalDoc(localValue, last'.ops)
     /\ (rafQueue # <<>> /\ rafQueue' = <<>> /\ hasTextarea /\ activeView' = activeView) =>
          /\ localValue' = localValue
          /\ selStart' = Min(rafQueue[Len(rafQueue)].from, Len(localValue))
          /\ selEnd' = Min(rafQueue[Len(rafQueue)].to, Len(localValue))]_vars

\* C21 witness: a palette command ran two mutations with different cursor
\* targets, and the frame has left the target of the second one.
C21_Witness ==
  /\ last.kind = "command" /\ last.applied /\ hasTextarea
  /\ Len(last.ops) = 2 /\ last.ops[1].upd /\ last.ops[2].upd
  /\ last.ops[1].raf # last.ops[2].raf
  /\ rafQueue = <<>>
  /\ selStart = last.ops[2].raf[1].from
  /\ selStart # last.ops[1].raf[1].from

(***************************************************************************)
(* PreviewSpec: the preview of a mounted editor.  parsedTokens is          *)
(* marked.lexer(localValue), computed during render and memoized on        *)
(* localValue; the effect that sets marked's options runs after the first  *)
(* render; renderedMarkdown is memoized on parsedTokens and theme.         *)
(***************************************************************************)
PreviewChars == {"a", "b", "\n"}

\* the texts previewed: single paragraphs, that is no line break at either
\* end and no two line breaks in a row
PreviewTexts ==
  {t \in UNION {[1..n -> PreviewChars] : n \in 1..(MaxLen + 1)} :
     /\ t[1] # "\n"
     /\ t[Len(t)] # "\n"
     /\ \A i \in 1..(Len(t) - 1) : ~(t[i] = "\n" /\ t[i + 1] = "\n")}

Themes == {"light", "dark"}

RECURSIVE lexer(_, _)
\* marked.lexer on a paragraph: with the breaks option a line break ends a
\* text token and gives a br token; without it the line break stays inside
\* the text token
lexer(text, breaks) ==
  IF text = <<>> THEN <<>>
  ELSE LET nl == IndexOf(text, <<"\n">>)
       IN IF ~breaks \/ nl = -1
          THEN <<[type |-> "text", text |-> text]>>
          ELSE <<[type |-> "text", text |-> Slice(text, 0, nl)], [type |-> "br", text |-> <<>>]>>
                 \o lexer(SliceFrom(text, nl + 1), breaks)

\* renderMarkdownTokens on the tokens of a paragraph: a span for a text
\* token, a br element for a br token
renderMarkdownTokens(tokens, th) ==
  [i \in 1..Len(tokens) |->
     IF tokens[i].type = "br" THEN [node |-> "br", text |-> <<>>]
     ELSE [node |-> "span", text |-> tokens[i].text]]

\* the first render of an editor mounted with a text and a theme, in a page
\* where marked has its default options (breaks off) or where another
\* component has set them before
PreviewInit ==
  /\ localValue \in PreviewTexts
  /\ value = localValue
  /\ selStart = 0
  /\ selEnd = 0
  /\ activeView = "split"
  /\ listenersAttached = TRUE
  /\ showSlashMenu = FALSE
  /\ slashQuery = <<>>
  /\ showFloatingToolbar = FALSE
  /\ rafQueue = <<>>
  /\ pendingKey = NoKey
  /\ last = NoHandler
  /\ hasWindow = TRUE
  /\ htmlToken = NoToken
  /\ rendered = <<>>
  /\ emitted = NoOutput
  /\ markedBreaks \in BOOLEAN
  /\ theme \in Themes
  /\ parsedTokens = lexer(localValue, markedBreaks)
  /\ renderedMarkdown = renderMarkdownTokens(parsedTokens, theme)
  /\ firstRender = [text |-> localValue, theme |-> theme, out |-> renderedMarkdown]
  /\ ListenerIdle
  /\ MiddlewareIdle

\* the mount effect: marked.setOptions({breaks: true, gfm: true}); the memo
\* of parsedTokens is not computed again
ConfigureMarked ==
  /\ ~markedBreaks
  /\ markedBreaks' = TRUE
  /\ UNCHANGED <<editorVars, tokenVars, listenerVars, middlewareVars,
                 theme, parsedTokens,
                 renderedMarkdown, firstRender>>

\* the text changes after the mount effect has run: both memos are computed again
PreviewSetText(t) ==
  /\ markedBreaks
  /\ t # localValue
  /\ localValue' = t
  /\ value' = t
  /\ parsedTokens' = lexer(t, markedBreaks)
  /\ renderedMarkdown' = renderMarkdownTokens(parsedTokens', theme)
  /\ UNCHANGED <<selStart, selEnd, activeView, listenersAttached, showSlashMenu,
                 slashQuery, showFloatingToolbar, rafQueue, pendingKey, last,
                 tokenVars, listenerVars, middlewareVars,
                 markedBreaks, theme, firstRender>>

\* the theme changes: renderedMarkdown is computed again from the memoized tokens
SetTheme(th) ==
  /\ markedBreaks
  /\ th # theme
  /\ theme' = th
  /\ renderedMarkdown' = renderMarkdownTokens(parsedTokens, th)
  /\ UNCHANGED <<editorVars, tokenVars, listenerVars, middlewareVars,
                 markedBreaks,
                 parsedTokens, firstRender>>

PreviewNext ==
  \/ ConfigureMarked
  \/ \E t \in PreviewTexts : PreviewSetText(t)
  \/ \E th \in Themes : SetTheme(th)

PreviewSpec == PreviewInit /\ [][PreviewNext]_vars

\* C22: whenever the editor shows the text and theme of its first render
\* again, the rendered output is that of the first render.
C22_RenderIsFunction ==
  (localValue = firstRender.text /\ theme = firstRender.theme)
    => renderedMarkdown = firstRender.out

\* C23: an inline raw-HTML token is rendered if and only if one of the
\* elements of its text has an allow-listed tag; otherwise nothing is output.
C23_InlineHtmlPrefilter ==
  (htmlToken.type = "html" /\ htmlToken.level = "inline")
    => /\ emitted.kind # "null"
            <=> \E i \in 1..Len(htmlToken.elems) : htmlToken.elems[i].tag \in HtmlAllowedTags
       /\ emitted.kind = "null" => rendered = <<>>

\* C24: a token of a type the renderer has no case for outputs its raw text
\* when it has one and nothing when it has none, at inline and block level.
C24_UnknownTokenFallback ==
  htmlToken.type = "unknown"
    => IF htmlToken.hasRaw
       THEN emitted = Output("text", htmlToken.raw)
       ELSE emitted = Output("null", <<>>)

\* C28: decoding undoes the tokenizer's escaping: a code span displays
\* exactly the text written between its backquotes, every entity decoded once.
C28_DecodeInvertsEscape ==
  htmlToken.type = "codespan"
    => emitted.text = SubSeq(htmlToken.raw, 2, Len(htmlToken.raw) - 1)

\* C26: insertHeading of level N over a non-empty selection of a live widget,
\* on one line or across lines, yields the old text with only "#"*N + " "
\* inserted at the start of the line the selection starts on, and the cursor
\* it asks for stands at the end of the selected text in the new text.
C26_HeadingKeepsSelection ==
  [][(HandlerStep /\ hasTextarea /\ selStart < selEnd)
     => \A i \in 1..Len(last'.ops) :
          last'.ops[i].name \in HeadingNames =>
            LET prefix == HeadingPrefix(HeadingLevel(last'.ops[i].name))
                doc == last'.ops[i].doc
                r == last'.ops[i].raf[1]
            IN /\ doc = Slice(localValue, 0, LineStart) \o prefix
                          \o SliceFrom(localValue, LineStart)
               /\ r.from = r.to
               /\ r.to = selEnd + Len(prefix)
               /\ Slice(doc, r.to - (selEnd - selStart), r.to)
                    = Slice(localValue, selStart, selEnd)]_vars

\* C26 witness: a level-1 heading was made of "a\n" selected as a whole; the
\* text only gained "# " and the cursor was asked for behind the line break.
C26_Witness ==
  /\ last.kind = "toolbar" /\ last.name = "heading1" /\ hasTextarea
  /\ localValue = <<"#", " ", "a", "\n">>
  /\ last.ops[1].raf = Range(4, 4)

\* the characters of p occur in t, in the same order
RECURSIVE IsSubsequence(_, _)
IsSubsequence(p, t) ==
  IF p = <<>> THEN TRUE
  ELSE IF t = <<>> THEN FALSE
       ELSE IF Head(p) = Head(t)
            THEN IsSubsequence(Tail(p), Tail(t))
            ELSE IsSubsequence(p, Tail(t))

\* C27: insertList on a live widget with a collapsed cursor deletes nothing:
\* every character of the old text, the ones between the line start and the
\* cursor included, is in the new text, in the same order.
C27_ListDeletesNothing ==
  [][(HandlerStep /\ hasTextarea /\ selStart = selEnd)
     => \A i \in 1..Len(last'.ops) :
          last'.ops[i].name \in ListNames =>
            /\ IsSubsequence(Slice(localValue, LineStart, selStart), last'.ops[i].doc)
            /\ IsSubsequence(localValue, last'.ops[i].doc)]_vars

\* C29: when the deferred cursor placements run, every offset they apply lies
\* within the text as it is then, also when the host has replaced the value
\* since they were scheduled.
C29_DeferredOffsetsInRange ==
  [][(rafQueue # <<>> /\ rafQueue' = <<>> /\ hasTextarea /\ localValue' = localValue
        /\ activeView' = activeView)
     => \A i \in 1..Len(rafQueue) :
          /\ rafQueue[i].from <= Len(localValue)
          /\ rafQueue[i].to <= Len(localValue)]_vars

(***************************************************************************)
(* ListenerSpec: the editor's listener for the document's                  *)
(* "markdown-editor-insert" event over mounts, unmounts and re-renders.    *)
(* The effect registers a handler that closes over the insertAtCursor of   *)
(* its render, and so over that render's localValue; it runs again, after  *)
(* its cleanup, whenever insertAtCursor changes.                           *)
(***************************************************************************)
\* removeEventListener that leaves every listener registered
RemoveListener_Nothing(hs, h) == hs

\* document.removeEventListener("markdown-editor-insert", handler)
RemoveListener(hs, h) ==
  LET at == {i \in 1..Len(hs) : hs[i] = h}
  IN IF at = {} THEN hs
     ELSE LET k == CHOOSE i \in at : \A j \in at : i <= j
          IN SubSeq(hs, 1, k - 1) \o SubSeq(hs, k + 1, Len(hs))

\* the listeners after the commit of a render whose localValue is T: when
\* insertAtCursor has changed, the cleanup removes the old handler and the
\* effect adds the new one
Registered(hs, cleanup, T) ==
  IF cleanup = Closure(T) THEN hs
  ELSE Append(RemoveListener(hs, cleanup), Closure(T))

\* the texts the host holds and the user types
ListenerTexts == UNION {[1..n -> {"a", "b"}] : n \in 0..MaxLen}

ListenerInit ==
  /\ localValue = <<>>
  /\ value \in ListenerTexts
  /\ selStart = 0
  /\ selEnd = 0
  /\ activeView = "split"
  /\ listenersAttached = FALSE
  /\ showSlashMenu = FALSE
  /\ slashQuery = <<>>
  /\ showFloatingToolbar = FALSE
  /\ rafQueue = <<>>
  /\ pendingKey = NoKey
  /\ last = NoHandler
  /\ hasWindow = TRUE
  /\ htmlToken = NoToken
  /\ rendered = <<>>
  /\ emitted = NoOutput
  /\ PreviewIdle
  /\ editorMounted = FALSE
  /\ insertHandlers = <<>>
  /\ cleanupHandler = NoClosure
  /\ MiddlewareIdle

\* the host mounts the editor: localValue starts as the value prop, the view
\* is the split view and the effect registers the first handler
MountEditor ==
  /\ ~editorMounted
  /\ editorMounted' = TRUE
  /\ localValue' = value
  /\ activeView' = "split"
  /\ \E c \in {0, Len(value)} : selStart' = c /\ selEnd' = c
  /\ insertHandlers' = Append(insertHandlers, Closure(value))
  /\ cleanupHandler' = Closure(value)
  /\ listenersAttached' = TRUE
  /\ last' = NoHandler
  /\ UNCHANGED <<value, showSlashMenu, slashQuery, showFloatingToolbar, rafQueue,
                 pendingKey, renderVars, middlewareVars>>

\* the host unmounts the editor: the effect's cleanup runs and the state of
\* the component is gone
UnmountEditor ==
  /\ editorMounted
  /\ Idle
  /\ editorMounted' = FALSE
  /\ insertHandlers' = RemoveListener(insertHandlers, cleanupHandler)
  /\ cleanupHandler' = NoClosure
  /\ localValue' = <<>>
  /\ selStart' = 0
  /\ selEnd' = 0
  /\ activeView' = "split"
  /\ listenersAttached' = FALSE
  /\ last' = NoHandler
  /\ UNCHANGED <<value, showSlashMenu, slashQuery, showFloatingToolbar, rafQueue,
                 pendingKey, renderVars, middlewareVars>>

\* the user changes the text of the textarea and leaves the selection (s, e):
\* onChange calls updateValue
TextareaInput(t, s, e) ==
  /\ editorMounted
  /\ hasTextarea
  /\ Idle
  /\ s <= e
  /\ localValue' = t
  /\ value' = t
  /\ selStart' = s
  /\ selEnd' = e
  /\ insertHandlers' = Registered(insertHandlers, cleanupHandler, t)
  /\ cleanupHandler' = Closure(t)
  /\ last' = NoHandler
  /\ UNCHANGED <<activeView, editorMounted, listenersAttached, showSlashMenu,
                 slashQuery, showFloatingToolbar, rafQueue, pendingKey, renderVars, middlewareVars>>

\* a view button of a mounted editor
ListenerSetView(v) ==
  /\ editorMounted
  /\ SetView(v)

\* the animation frame of a mounted editor
ListenerFrame ==
  /\ editorMounted
  /\ Frame

\* document.dispatchEvent(new CustomEvent("markdown-editor-insert", {detail:
\* {snippet}})): every registered handler runs, in the order registered, the
\* insertAtCursor it closes over; the commit follows
DispatchInsert(snippet) ==
  /\ Idle
  /\ Small(localValue)
  /\ LET ops == IF snippet = <<>> THEN <<>>
                ELSE [i \in 1..Len(insertHandlers) |->
                        [Tag("insertEvent",
                             insertAtCursor(insertHandlers[i].T,
                                            editorMounted /\ hasTextarea,
                                            selStart, selEnd, snippet, FALSE))
                           EXCEPT !.args = <<snippet>>]]
     IN /\ Commit(ops)
        /\ last' = Handler("event",
                           IF snippet = <<>> THEN "emptyEvent" ELSE "insertEvent",
                           ops, FALSE)
        /\ insertHandlers' =
             IF editorMounted
             THEN Registered(insertHandlers, cleanupHandler, FinalDoc(localValue, ops))
             ELSE insertHandlers
        /\ cleanupHandler' =
             IF editorMounted THEN Closure(FinalDoc(localValue, ops)) ELSE cleanupHandler
  /\ UNCHANGED <<activeView, editorMounted, showSlashMenu, slashQuery,
                 showFloatingToolbar, pendingKey, renderVars, middlewareVars>>

ListenerNext ==
  \/ MountEditor
  \/ UnmountEditor
  \/ \E t \in ListenerTexts, s \in 0..MaxLen, e \in 0..MaxLen :
       s <= Len(t) /\ e <= Len(t) /\ TextareaInput(t, s, e)
  \/ \E v \in Views : ListenerSetView(v)
  \/ \E snippet \in EventSnippets : DispatchInsert(snippet)
  \/ ListenerFrame

ListenerSpec == ListenerInit /\ [][ListenerNext]_vars

\* C25: a mounted editor has exactly one listener for the insert event and
\* an unmounted one has none; an event with a non-empty snippet makes a
\* mounted editor insert the snippet exactly once into the text it shows, at
\* the selection of its textarea when it has one, and the host receives the
\* result; without a mounted editor the event changes nothing.
C25_OneListenerOneInsertion ==
  [][/\ Len(insertHandlers') = (IF editorMounted' THEN 1 ELSE 0)
     /\ (HandlerStep /\ last'.kind = "event" /\ last'.name = "insertEvent") =>
          IF editorMounted
          THEN /\ Len(last'.ops) = 1
               /\ LET snippet == last'.ops[1].args[1]
                      doc == last'.ops[1].doc
                  IN /\ \E p \in 0..Len(localValue), q \in 0..Len(localValue) :
                          /\ p <= q
                          /\ doc = Slice(localValue, 0, p) \o snippet
                                     \o SliceFrom(localValue, q)
                     /\ hasTextarea =>
                          doc = Slice(localValue, 0, selStart) \o snippet
                                  \o SliceFrom(localValue, selEnd)
                     /\ localValue' = doc
                     /\ value' = doc
          ELSE /\ last'.ops = <<>>
               /\ UNCHANGED <<localValue, value>>]_vars

\* C25 witness: after the text was typed and so the handler registered anew,
\* an event put its snippet between "a" and "b", at the cursor, and the one
\* listener of the editor is the handler of the new text.
C25_Witness ==
  /\ editorMounted /\ hasTextarea
  /\ last.kind = "event" /\ last.name = "insertEvent" /\ Len(last.ops) = 1
  /\ localValue = <<"a">> \o last.ops[1].args[1] \o <<"b">>
  /\ value = localValue
  /\ insertHandlers = <<Closure(localValue)>>

(***************************************************************************)
(* MiddlewareSpec: the auth middleware serving requests one after another. *)
(* A pathname is the sequence of the pieces it is written with, so that    *)
(* startsWith is the prefix test on sequences.                             *)
(***************************************************************************)
publicPaths == {<<"/sign-in">>, <<"/sign-up">>}

\* the pathnames requested
Pathnames ==
  {<<"/sign-in">>, <<"/sign-up">>, <<"/sign-in", "-help">>, <<"/">>, <<"/courses">>,
   <<"/api", "/x">>, <<"/_next/static", "/x">>}

\* config.matcher: every path but those that go on with api, _next/static,
\* _next/image or favicon.ico after the first slash
matcher(pathname) ==
  ~(\E p \in {<<"/api">>, <<"/_next/static">>, <<"/_next/image">>, <<"/favicon.ico">>} :
      StartsWith(pathname, p))

\* the value of a cookie: undefined when the request has no such cookie
CookieValues == {"undefined", "", "token"}

\* the cookies session, __Secure-session and __Host-session of a request
Cookies == [1..3 -> CookieValues]

\* a value that || passes over
Falsy(v) == v \in {"undefined", ""}

\* sessionToken taking a cookie that is present for a token, also when empty
sessionToken_EmptyCounts(cookies) ==
  IF cookies[1] # "undefined" THEN "token"
  ELSE IF cookies[2] # "undefined" THEN "token" ELSE cookies[3]

\* cookies.get("session")?.value || cookies.get("__Secure-session")?.value
\*   || cookies.get("__Host-session")?.value
sessionToken(cookies) ==
  IF ~Falsy(cookies[1]) THEN cookies[1]
  ELSE IF ~Falsy(cookies[2]) THEN cookies[2] ELSE cookies[3]

\* publicPaths.some((path) => pathname.startsWith(path))
isPublicPath(pathname) == \E path \in publicPaths : StartsWith(pathname, path)

\* getCallbackUrl: the path on APP_URL when that is set, request.url otherwise
getCallbackUrl(req) ==
  IF appUrlSet THEN <<"APP_URL">> \o req.pathname ELSE <<"request.url">> \o req.pathname

\* what the auth service does with GET /api/v1/account/complete: a status, for
\* 200 the complete field of the body, or no answer at all
AuthAnswers ==
  {"401", "200 complete", "200 incomplete", "200 no field", "500", "unreachable"}

\* middleware(request), the auth service answering with answer when asked
middleware(req, answer) ==
  LET token == sessionToken(req.cookies)
      public == isPublicPath(req.pathname)
  IN IF Falsy(token) /\ ~public
     THEN Response("redirect", "AUTH_APP_URL", getCallbackUrl(req))
     ELSE IF ~Falsy(token) /\ public
     THEN Response("redirect", "/courses", <<>>)
     ELSE IF ~Falsy(token) /\ ~public /\ answer = "401"
     THEN Response("redirect", "AUTH_APP_URL", getCallbackUrl(req))
     ELSE IF ~Falsy(token) /\ ~public /\ answer = "200 incomplete"
     THEN Response("redirect", "AUTH_APP_URL/onboarding", getCallbackUrl(req))
     ELSE Response("next", "none", <<>>)

\* the middleware fetches the auth service for this request
Fetches(req) == ~Falsy(sessionToken(req.cookies)) /\ ~isPublicPath(req.pathname)

MiddlewareInit ==
  /\ EditorInit
  /\ hasWindow = TRUE
  /\ htmlToken = NoToken
  /\ rendered = <<>>
  /\ emitted = NoOutput
  /\ PreviewIdle
  /\ ListenerIdle
  /\ appUrlSet \in BOOLEAN
  /\ request = NoRequest
  /\ authAnswer = "none"
  /\ response = NoResponse

\* a request the matcher hands to the middleware
Middleware(req, answer) ==
  /\ matcher(req.pathname)
  /\ request' = req
  /\ authAnswer' = IF Fetches(req) THEN answer ELSE "none"
  /\ response' = middleware(req, answer)
  /\ UNCHANGED <<appUrlSet, editorVars, renderVars, listenerVars>>

\* a request the matcher keeps from the middleware
Unmatched(req) ==
  /\ ~matcher(req.pathname)
  /\ request' = req
  /\ authAnswer' = "none"
  /\ response' = Response("unmatched", "none", <<>>)
  /\ UNCHANGED <<appUrlSet, editorVars, renderVars, listenerVars>>

MiddlewareNext ==
  \/ \E pathname \in Pathnames, cookies \in Cookies, answer \in AuthAnswers :
       Middleware(Request(pathname, cookies), answer)
  \/ \E pathname \in Pathnames, cookies \in Cookies :
       Unmatched(Request(pathname, cookies))

MiddlewareSpec == MiddlewareInit /\ [][MiddlewareNext]_vars

\* the request carries a non-empty session, __Secure-session or __Host-session
\* cookie
HasSessionCookie ==
  \E i \in 1..3 : request.cookies[i] \notin {"undefined", ""}

\* the path of the request starts with neither /sign-in nor /sign-up
NonPublic ==
  /\ ~StartsWith(request.pathname, <<"/sign-in">>)
  /\ ~StartsWith(request.pathname, <<"/sign-up">>)

\* C30: after any sequence of requests, the middleware has let the last
\* request through to a non-public path only if it carried a non-empty
\* session cookie; a request to such a path without one was redirected to
\* the auth app with the callback URL of the request, and so was one whose
\* session the auth service answered with 401.
C30_SessionRequired ==
  (response.kind \in {"next", "redirect"} /\ NonPublic)
    => /\ response.kind = "next" => HasSessionCookie
       /\ ~HasSessionCookie =>
            response = Response("redirect", "AUTH_APP_URL",
                                (IF appUrlSet THEN <<"APP_URL">> ELSE <<"request.url">>)
                                  \o request.pathname)
       /\ (HasSessionCookie /\ authAnswer = "401") =>
            /\ response.kind = "redirect"
            /\ response.to = "AUTH_APP_URL"
            /\ response.callbackUrl # <<>>

\* C30 witness: a request for /courses with only an empty session cookie was
\* redirected to the auth app, callback URL taken from the request.
C30_Witness ==
  /\ request = Request(<<"/courses">>, <<"", "undefined", "undefined">>)
  /\ response = Response("redirect", "AUTH_APP_URL", <<"request.url", "/courses">>)

====
